---- MODULE Spec2Model ----
(***************************************************************************)
(* Model of validatePedigree (src/src/pedigree.ts).                        *)
(*                                                                         *)
(* A call of validatePedigree(ped, options) is a run of the state machine: *)
(* Init draws the two arguments, and every action is one block of the      *)
(* function body, in program order.  A JavaScript value is a pair          *)
(* <<type, text>>, so that the number 0 and the string "0" are distinct    *)
(* values with the same property key; an object is a function from its own *)
(* property keys, and the `in` operator also sees the keys inherited from  *)
(* Object.prototype.                                                       *)
(***************************************************************************)
EXTENDS Integers, Sequences, FiniteSets, TLC

VARIABLES ped, options, result, calls, pc, fams, famids, dads, mums, famPos,
          args, earlier

vars == <<ped, options, result, calls, pc, fams, famids, dads, mums, famPos,
          args, earlier>>

(***************************************************************************)
(* JavaScript values                                                       *)
(***************************************************************************)
Num(t) == <<"number", t>>
Str(t) == <<"string", t>>
Null == <<"null", "null">>
Undefined == <<"undefined", "undefined">>

\* String(v): the property key a value is converted to by obj[v] and `v in obj`.
ToKey(v) == v[2]

\* if (v): null, undefined, the number 0 and the empty string are falsy.
Truthy(v) == v \notin {Null, Undefined, Num("0"), Str("")}

\* A property name every object literal inherits from Object.prototype.
ObjectPrototypeKeys == {"toString"}

\* `k in obj` for an object literal obj with the own keys DOMAIN obj.
HasKey(obj, k) == k \in DOMAIN obj \/ k \in ObjectPrototypeKeys

\* obj[k] = v
PutKey(obj, k, v) == [x \in DOMAIN obj \cup {k} |-> IF x = k THEN v ELSE obj[x]]

EmptyObject == [x \in {} |-> <<>>]

\* Keys that are canonical array indices, with their numeric value.
IntegerKeys == {"0", "1", "2"}
IntegerKeyValue(k) == CASE k = "0" -> 0 [] k = "1" -> 1 [] k = "2" -> 2

SeqToSet(s) == {s[i] : i \in DOMAIN s}

\* Set.prototype.add on a Set kept as the sequence of its insertion order.
SetAdd(s, x) == IF x \in SeqToSet(s) THEN s ELSE Append(s, x)

RECURSIVE SetAddAll(_, _)
SetAddAll(s, xs) ==
  IF xs = <<>> THEN s ELSE SetAddAll(SetAdd(s, Head(xs)), Tail(xs))

(***************************************************************************)
(* Options                                                                 *)
(***************************************************************************)
Categories ==
  {"empty", "duplicates", "inconsistentSex", "multipleFamilies", "oneFamily",
   "fullyConnected", "cycles"}

Severities == {"ignore", "warning", "error"}

strict ==
  [empty |-> "ignore", duplicates |-> "error", inconsistentSex |-> "error",
   multipleFamilies |-> "error", oneFamily |-> "error",
   fullyConnected |-> "error", cycles |-> "error"]

permissive ==
  [empty |-> "ignore", duplicates |-> "warning", inconsistentSex |-> "error",
   multipleFamilies |-> "ignore", oneFamily |-> "ignore",
   fullyConnected |-> "warning", cycles |-> "error"]

(***************************************************************************)
(* Text of the findings                                                    *)
(***************************************************************************)
ReasonEmpty == "An empty pedigree is not permitted."
ReasonMultipleFamilies == "The pedigree contains multiple families."
ReasonOneFamily == "The pedigree contains individuals who belong to more than one family."
ReasonDuplicateRows == "Pedigree contains duplicate rows for at least one individual."
ReasonBoth == "There is at least one sample used as both father and mother."
ReasonSexMums == "There is at least one sample that occurs as a mother but is not female."
ReasonSexDads == "There is at least one sample that occurs as a father but is not male."
ReasonFullyConnected == "At least one individual is not properly connected to family."
ReasonCycles == "There was at least one instance of someone being their own ancestor."

WhyOneFamily == "Individual belongs to more than one family."
WhyDuplicateRows == "Person is defined in more than one line of the pedigree."
WhyBoth == "Person is used as both a mother and a father."
WhySexMums == "Person is not female, but occurs as a mother."
WhySexDads == "Person is not male, but occurs as a father."
WhyFullyConnected == "Individual is not properly connected to pedigree."
WhyCycles == "Sample is an ancestor of itself."

(***************************************************************************)
(* zip and addProblem                                                      *)
(***************************************************************************)
zip(fst, snd) == [i \in DOMAIN fst |-> <<fst[i], snd>>]

NewResult == [ok |-> TRUE, reasons |-> <<>>, problematic |-> {}, whys |-> EmptyObject]

\* Faulty variant of AddWho: the individual is explained but not added to
\* problematic.
AddWhoForgetsProblematic(res, itm) ==
  LET k == ToKey(itm[1])
      w0 == IF k \in DOMAIN res.whys THEN res.whys ELSE PutKey(res.whys, k, <<>>)
  IN [res EXCEPT !.whys = PutKey(w0, k, Append(w0[k], itm[2]))]

\* One turn of the loop over whoAndWhy.
AddWho(res, itm) ==
  LET who == itm[1]
      why == itm[2]
      k == ToKey(who)
      w0 == IF HasKey(res.whys, k) THEN res.whys ELSE PutKey(res.whys, k, <<>>)
  IN [res EXCEPT !.problematic = @ \cup {who},
                 !.whys = PutKey(w0, k, Append(w0[k], why))]

RECURSIVE AddWhos(_, _)
AddWhos(res, whoAndWhy) ==
  IF whoAndWhy = <<>> THEN res
  ELSE AddWhos(AddWho(res, Head(whoAndWhy)), Tail(whoAndWhy))

\* Faulty variant of addProblem: a warning makes ok false as an error does.
addProblemWarningFails(opts, res, which, reason, whoAndWhy) ==
  IF opts[which] \in {"error", "warning"}
    THEN AddWhos([res EXCEPT !.ok = FALSE, !.reasons = Append(@, reason)], whoAndWhy)
    ELSE res

\* Faulty variant of addProblem: ignore falls into the case of warning.
addProblemIgnoreRecords(opts, res, which, reason, whoAndWhy) ==
  AddWhos([res EXCEPT !.ok = IF opts[which] = "error" THEN FALSE ELSE @,
                      !.reasons = Append(@, reason)], whoAndWhy)

\* Faulty variant of addProblem: the reason is recorded for a warning only.
addProblemForgetsReason(opts, res, which, reason, whoAndWhy) ==
  LET r1 == IF opts[which] = "error" THEN [res EXCEPT !.ok = FALSE] ELSE res
      r2 == IF opts[which] = "warning" THEN [r1 EXCEPT !.reasons = Append(@, reason)] ELSE r1
  IN IF opts[which] \in {"error", "warning"} THEN AddWhos(r2, whoAndWhy) ELSE res

\* Faulty variant of addProblem: a warning sets ok to true.
addProblemWarningClears(opts, res, which, reason, whoAndWhy) ==
  LET r1 == [res EXCEPT !.ok = (opts[which] # "error")]
      r2 == [r1 EXCEPT !.reasons = Append(@, reason)]
  IN IF opts[which] \in {"error", "warning"} THEN AddWhos(r2, whoAndWhy) ELSE res

\* Faulty variant of addProblem: the reason is put at the head of reasons.
addProblemPrepends(opts, res, which, reason, whoAndWhy) ==
  LET r1 == IF opts[which] = "error" THEN [res EXCEPT !.ok = FALSE] ELSE res
      r2 == [r1 EXCEPT !.reasons = <<reason>> \o @]
  IN IF opts[which] \in {"error", "warning"} THEN AddWhos(r2, whoAndWhy) ELSE res

addProblem(opts, res, which, reason, whoAndWhy) ==
  LET r1 == IF opts[which] = "error" THEN [res EXCEPT !.ok = FALSE] ELSE res
      r2 == [r1 EXCEPT !.reasons = Append(@, reason)]
  IN IF opts[which] \in {"error", "warning"} THEN AddWhos(r2, whoAndWhy) ELSE res

(***************************************************************************)
(* for (const k in obj): the integer keys in ascending order, then the     *)
(* other own keys in the order of their creation.                          *)
(***************************************************************************)
RECURSIVE SortIntegerKeys(_)
SortIntegerKeys(ks) ==
  IF ks = {} THEN <<>>
  ELSE LET m == CHOOSE k \in ks : \A j \in ks : IntegerKeyValue(k) <= IntegerKeyValue(j)
       IN <<m>> \o SortIntegerKeys(ks \ {m})

ForInOrder(keys) ==
  SortIntegerKeys(SeqToSet(keys) \cap IntegerKeys)
    \o SelectSeq(keys, LAMBDA k : k \notin IntegerKeys)

(***************************************************************************)
(* Grouping the rows by family (lines 142-151).  The value is the object   *)
(* fams, the list famids and whether fams[famid].push(row) threw: it does  *)
(* when `famid in fams` holds for an inherited key, whose value is a       *)
(* function of the prototype without a push method.                        *)
(***************************************************************************)
RECURSIVE GroupRows(_, _)
GroupRows(rows, acc) ==
  IF rows = <<>> \/ acc.threw THEN acc
  ELSE LET row == Head(rows)
           famid == row.family
           k == ToKey(famid)
           fresh == ~HasKey(acc.fams, k)
           fs == IF fresh THEN PutKey(acc.fams, k, <<>>) ELSE acc.fams
           ids == IF fresh THEN Append(acc.famids, famid) ELSE acc.famids
       IN IF k \in DOMAIN fs
            THEN GroupRows(Tail(rows),
                   [fams |-> PutKey(fs, k, Append(fs[k], row)), famids |-> ids,
                    threw |-> FALSE])
            ELSE [fams |-> fs, famids |-> ids, threw |-> TRUE]

GroupFamilies(rows) ==
  GroupRows(rows, [fams |-> EmptyObject, famids |-> <<>>, threw |-> FALSE])

(***************************************************************************)
(* The families each individual is mentioned in (lines 156-179).  The      *)
(* value is the object famIdx, its keys in order of creation, and whether  *)
(* famIdx[who].add(famid) threw.                                           *)
(***************************************************************************)
\* Faulty variant of RowWhos: the parents of a row are not counted in the
\* row's family.
RowWhosSampleOnly(row) == <<row.sample>>

RowWhos(row) ==
  <<row.sample>>
    \o (IF Truthy(row.father) THEN <<row.father>> ELSE <<>>)
    \o (IF Truthy(row.mother) THEN <<row.mother>> ELSE <<>>)

RECURSIVE IndexWhos(_, _, _)
IndexWhos(whos, famid, acc) ==
  IF whos = <<>> \/ acc.threw THEN acc
  ELSE LET k == ToKey(Head(whos))
           fresh == ~HasKey(acc.famIdx, k)
           idx == IF fresh THEN PutKey(acc.famIdx, k, <<>>) ELSE acc.famIdx
           keys == IF fresh THEN Append(acc.keys, k) ELSE acc.keys
       IN IF k \in DOMAIN idx
            THEN IndexWhos(Tail(whos), famid,
                   [famIdx |-> PutKey(idx, k, SetAdd(idx[k], famid)), keys |-> keys,
                    threw |-> FALSE])
            ELSE [famIdx |-> idx, keys |-> keys, threw |-> TRUE]

RECURSIVE IndexRows(_, _, _)
IndexRows(rows, famid, acc) ==
  IF rows = <<>> \/ acc.threw THEN acc
  ELSE IndexRows(Tail(rows), famid, IndexWhos(RowWhos(Head(rows)), famid, acc))

RECURSIVE IndexFamilies(_, _, _)
IndexFamilies(ids, fs, acc) ==
  IF ids = <<>> \/ acc.threw THEN acc
  ELSE IndexFamilies(Tail(ids), fs, IndexRows(fs[ToKey(Head(ids))], Head(ids), acc))

FamilyIndex(ids, fs) ==
  IndexFamilies(ids, fs, [famIdx |-> EmptyObject, keys |-> <<>>, threw |-> FALSE])

\* for (const who in famIdx): who is the property key, a string.
FamilyProblems(fi) ==
  LET shared == SelectSeq(ForInOrder(fi.keys), LAMBDA k : Len(fi.famIdx[k]) > 1)
  IN [i \in DOMAIN shared |-> <<Str(shared[i]), WhyOneFamily>>]

(***************************************************************************)
(* Sex normalisation (lines 192-218): a switch, which compares with ===.   *)
(***************************************************************************)
\* Faulty variant of NormaliseSex: the case of the string "2" is missing.
NormaliseSexWithoutStringTwo(sex) ==
  CASE sex \in {Num("0"), Num("-1"), Str("0"), Null, Undefined} -> Null
    [] sex \in {Num("1"), Str("1"), Str("Male")} -> Str("Male")
    [] sex \in {Num("2"), Str("Female")} -> Str("Female")
    [] OTHER -> sex

\* Faulty variant of NormaliseSex: the number 1 is taken for unknown.
NormaliseSexOneUnknown(sex) ==
  CASE sex \in {Num("0"), Num("-1"), Num("1"), Str("0"), Null, Undefined} -> Null
    [] sex \in {Str("1"), Str("Male")} -> Str("Male")
    [] sex \in {Num("2"), Str("2"), Str("Female")} -> Str("Female")
    [] OTHER -> sex

NormaliseSex(sex) ==
  CASE sex \in {Num("0"), Num("-1"), Str("0"), Null, Undefined} -> Null
    [] sex \in {Num("1"), Str("1"), Str("Male")} -> Str("Male")
    [] sex \in {Num("2"), Str("2"), Str("Female")} -> Str("Female")
    [] OTHER -> sex

NormaliseRows(rows) == [i \in DOMAIN rows |-> [rows[i] EXCEPT !.sex = NormaliseSex(@)]]

(***************************************************************************)
(* The scan for repeated samples (lines 225-241).  A row whose sample was  *)
(* met before is skipped, its parents included.                            *)
(***************************************************************************)
\* Faulty variant of ScanRow: the sample is added to kids before kids is asked
\* for it, so that every row counts as a repeat.
ScanRowAddsFirst(acc, row) ==
  [acc EXCEPT !.kids = SetAdd(@, row.sample),
              !.duplicates = SetAdd(@, row.sample),
              !.dads = IF Truthy(row.father) THEN SetAdd(@, row.father) ELSE @,
              !.mums = IF Truthy(row.mother) THEN SetAdd(@, row.mother) ELSE @]

ScanRow(acc, row) ==
  IF row.sample \in SeqToSet(acc.kids)
    THEN [acc EXCEPT !.duplicates = SetAdd(@, row.sample)]
    ELSE [acc EXCEPT !.kids = Append(@, row.sample),
                     !.dads = IF Truthy(row.father) THEN SetAdd(@, row.father) ELSE @,
                     !.mums = IF Truthy(row.mother) THEN SetAdd(@, row.mother) ELSE @]

RECURSIVE ScanRows(_, _)
ScanRows(rows, acc) ==
  IF rows = <<>> THEN acc ELSE ScanRows(Tail(rows), ScanRow(acc, Head(rows)))

Scan(rows) ==
  ScanRows(rows, [kids |-> <<>>, dads |-> <<>>, mums |-> <<>>, duplicates |-> <<>>])

\* set.intersection(dads, mums)
Both(ds, ms) == SelectSeq(ds, LAMBDA x : x \in SeqToSet(ms))

(***************************************************************************)
(* Sex against role (lines 264-274).                                       *)
(***************************************************************************)
\* Faulty variant of InconsistentSex: the members of the role are visited,
\* and one without a record of the expected sex is flagged.
InconsistentSexOfRole(rows, role, expected) ==
  SelectSeq(role, LAMBDA who :
    \A i \in DOMAIN rows : ~(rows[i].sample = who /\ rows[i].sex = Str(expected)))

RECURSIVE InconsistentSex(_, _, _)
InconsistentSex(rows, role, expected) ==
  IF rows = <<>> THEN <<>>
  ELSE LET row == Head(rows)
           rest == InconsistentSex(Tail(rows), role, expected)
       IN IF row.sex # Str(expected) /\ row.sample \in SeqToSet(role)
            THEN SetAddAll(<<row.sample>>, rest)
            ELSE rest

InconsistentSexMums(rows, ms) == InconsistentSex(rows, ms, "Female")
InconsistentSexDads(rows, ds) == InconsistentSex(rows, ds, "Male")

(***************************************************************************)
(* One family (lines 296-425).  for (const famid in fams) visits the keys  *)
(* of fams, which were created in the order of famids.                     *)
(***************************************************************************)
FamilyKeys(ids) == ForInOrder([i \in DOMAIN ids |-> ToKey(ids[i])])

\* The indexes kids, dads, mums and child (lines 299-331); parent is never read.
IndexRow(acc, row) ==
  LET kid == row.sample
      dad == row.father
      mum == row.mother
      link(a, p) ==
        LET k == ToKey(p)
            fresh == ~HasKey(a.child, k)
            c0 == IF fresh THEN PutKey(a.child, k, <<>>) ELSE a.child
        IN [a EXCEPT !.child = PutKey(c0, k, SetAdd(c0[k], kid)),
                     !.childKeys = IF fresh THEN Append(@, k) ELSE @]
      a1 == [acc EXCEPT !.kids = SetAdd(@, kid)]
      a2 == IF Truthy(dad) THEN link([a1 EXCEPT !.dads = SetAdd(@, dad)], dad) ELSE a1
      a3 == IF Truthy(mum) THEN link([a2 EXCEPT !.mums = SetAdd(@, mum)], mum) ELSE a2
  IN a3

RECURSIVE IndexFamilyRows(_, _)
IndexFamilyRows(rows, acc) ==
  IF rows = <<>> THEN acc ELSE IndexFamilyRows(Tail(rows), IndexRow(acc, Head(rows)))

FamilyIndexes(rows) ==
  IndexFamilyRows(rows,
    [kids |-> <<>>, dads |-> <<>>, mums |-> <<>>, child |-> EmptyObject,
     childKeys |-> <<>>])

\* [...set.union(kids, dads, mums)]
Everyone(ix) == SetAddAll(SetAddAll(ix.kids, ix.dads), ix.mums)

\* Faulty variant of UnionPairs: the mothers are not united with their children.
UnionPairsFathersOnly(rows) ==
  {<<rows[i].sample, rows[i].father>> : i \in {j \in DOMAIN rows : Truthy(rows[j].father)}}

\* The pairs given to uf.union (lines 341-351).
UnionPairs(rows) ==
  {<<rows[i].sample, rows[i].father>> : i \in {j \in DOMAIN rows : Truthy(rows[j].father)}}
    \cup
  {<<rows[i].sample, rows[i].mother>> : i \in {j \in DOMAIN rows : Truthy(rows[j].mother)}}

RECURSIVE Grow(_, _)
Grow(S, pairs) ==
  LET n == S \cup {p[1] : p \in {q \in pairs : q[2] \in S}}
                \cup {p[2] : p \in {q \in pairs : q[1] \in S}}
  IN IF n = S THEN S ELSE Grow(n, pairs)

\* The class of who in the union-find structure.
UnionClass(who, pairs) == Grow({who}, pairs)

UnionClasses(nodes, pairs) == {UnionClass(n, pairs) : n \in nodes}

\* uf.find: each class answers with one of its members; which one is the
\* union-find structure's choice.
FindChoices(nodes, pairs) ==
  LET cs == UnionClasses(nodes, pairs)
  IN {f \in [cs -> nodes] : \A c \in cs : f[c] \in c}

\* Step 2 (lines 358-367): idx is an object, so the roots are grouped by key.
RECURSIVE GroupByRoot(_, _, _, _)
GroupByRoot(whos, pairs, find, acc) ==
  IF whos = <<>> THEN acc
  ELSE LET who == Head(whos)
           key == find[UnionClass(who, pairs)]
           k == ToKey(key)
           i0 == IF HasKey(acc.idx, k) THEN acc.idx ELSE PutKey(acc.idx, k, {})
       IN GroupByRoot(Tail(whos), pairs, find,
            [idx |-> PutKey(i0, k, i0[k] \cup {who}), keys |-> SetAdd(acc.keys, key)])

\* Faulty variant of MaxSet: >= for >, so that the last group of the greatest
\* size is kept.
RECURSIVE MaxSetLast(_, _, _)
MaxSetLast(keys, idx, best) ==
  IF keys = <<>> THEN best
  ELSE LET g == idx[ToKey(Head(keys))]
       IN MaxSetLast(Tail(keys), idx, IF Cardinality(g) >= Cardinality(best) THEN g ELSE best)

\* Step 3a (lines 376-381): the first group of the greatest size.
RECURSIVE MaxSet(_, _, _)
MaxSet(keys, idx, best) ==
  IF keys = <<>> THEN best
  ELSE LET g == idx[ToKey(Head(keys))]
       IN MaxSet(Tail(keys), idx, IF Cardinality(g) > Cardinality(best) THEN g ELSE best)

\* Lines 353-393: whether addProblem is called, and with which individuals.
Unconnected(rows, find) ==
  LET everyone == Everyone(FamilyIndexes(rows))
      g == GroupByRoot(everyone, UnionPairs(rows), find, [idx |-> EmptyObject, keys |-> <<>>])
      maxSet == MaxSet(g.keys, g.idx, {})
  IN [report |-> Len(g.keys) > 1,
      who |-> IF Len(g.keys) > 1
                THEN SelectSeq(everyone, LAMBDA w : w \notin maxSet) ELSE <<>>]

\* Lines 398-403: for (const who in child) yields the keys of child.
Children(ix) ==
  UNION {{<<Str(k), kid>> : kid \in SeqToSet(ix.child[k])} : k \in SeqToSet(ix.childKeys)}

RECURSIVE Descend(_, _)
Descend(S, edges) ==
  LET n == S \cup {e[2] : e \in {d \in edges : d[1] \in S}}
  IN IF n = S THEN S ELSE Descend(n, edges)

\* The vertices reached from v along one edge or more.
Descendants(v, edges) == Descend({e[2] : e \in {d \in edges : d[1] = v}}, edges)

\* graph.tarjan: the strongly connected component of v.
Scc(v, edges) ==
  {v} \cup {w \in Descendants(v, edges) : v \in Descendants(w, edges)}

\* Lines 404-415: the members of the components of more than one vertex.
Cyclic(rows) ==
  LET ix == FamilyIndexes(rows)
      edges == Children(ix)
  IN SelectSeq(Everyone(ix), LAMBDA v : Cardinality(Scc(v, edges)) > 1)

(***************************************************************************)
(* The arguments of a call                                                 *)
(***************************************************************************)
MaxRows == 2

FamF == Str("F")
FamG == Str("G")
IdA == Str("a")
IdB == Str("b")
IdC == Str("c")

\* The sex each individual is recorded with, in three of the raw encodings.
RawSex(who) == CASE who = IdA -> Num("1") [] who = IdB -> Str("Female") [] OTHER -> Str("0")

\* The rows over the families fs, the samples is and the <<father, mother>> pairs pp.
Rows(fs, is, pp) ==
  {[family |-> f, sample |-> s, father |-> p[1], mother |-> p[2], sex |-> RawSex(s)] :
     f \in fs, s \in is, p \in pp}

Peds(rows) == UNION {[1..n -> rows] : n \in 0..MaxRows}

Uniform(sev) == [cat \in Categories |-> sev]

\* The two presets, and every policy that departs from a uniform one in at
\* most one category.
OneOffPolicies ==
  {strict, permissive}
    \cup {[Uniform(base) EXCEPT ![cat] = sev] :
            base \in Severities, cat \in Categories, sev \in Severities}

FewPolicies == {strict, permissive, Uniform("warning"), Uniform("ignore")}

GraphPolicies ==
  {strict, permissive, Uniform("warning"),
   [strict EXCEPT !.fullyConnected = "ignore"], [strict EXCEPT !.cycles = "ignore"]}

\* Two recorded individuals, any of them a father or a mother in family F;
\* family G has fewer shapes of row.
GeneralPeds ==
  Peds(Rows({FamF}, {IdA, IdB}, {Null, IdA, IdB} \X {Null, IdA, IdB})
         \cup Rows({FamG}, {IdA, IdB}, {Null, IdA} \X {Null, IdA}))

\* Few rows, for the runs over many policies.
PolicyPeds ==
  Peds(Rows({FamF}, {IdA, IdB}, {<<Null, Null>>, <<IdB, Null>>, <<Null, IdA>>, <<IdB, IdB>>})
         \cup Rows({FamG}, {IdA, IdB}, {<<Null, Null>>, <<IdB, IdB>>}))

\* Three individuals, for the shapes of the kinship graph.
GraphPeds ==
  Peds(Rows({FamF}, {IdA, IdB, IdC},
            {<<Null, Null>>, <<IdA, Null>>, <<IdB, Null>>, <<IdC, Null>>, <<Null, IdA>>, <<IdB, IdC>>})
         \cup Rows({FamG}, {IdA, IdB, IdC}, {<<Null, Null>>, <<IdA, Null>>}))

\* Several calls in a row: the greatest number of calls, the lists and the
\* policy arguments of the first call, and the inputs of the calls that
\* follow.
MaxCalls == 3

CallPeds ==
  Peds(Rows({FamF}, {IdA, IdB}, {<<Null, Null>>, <<IdB, Null>>, <<IdA, IdB>>})
         \cup Rows({FamG}, {IdA}, {<<Null, Null>>}))

CallGivens == {<<>>, <<strict>>, <<Uniform("warning")>>}

TwoSingles ==
  <<[family |-> FamF, sample |-> IdA, father |-> Null, mother |-> Null, sex |-> RawSex(IdA)],
    [family |-> FamF, sample |-> IdB, father |-> Null, mother |-> Null, sex |-> RawSex(IdB)]>>

OtherCalls ==
  {[ped |-> TwoSingles, options |-> <<>>],
   [ped |-> TwoSingles, options |-> <<strict>>],
   [ped |-> <<TwoSingles[1]>>, options |-> <<Uniform("warning")>>]}

\* Family ids that are integers or read as integers, and identifiers that
\* are names of Object.prototype; four rows, so that two families can each
\* have something to report.
MaxKeyRows == 4

FamOne == Num("1")
FamTwo == Str("2")
NameToString == Str("toString")

KeyRows ==
  Rows({FamTwo}, {IdA, IdB}, {<<Null, Null>>})
    \cup Rows({FamOne}, {IdA, IdC}, {<<Null, Null>>})
    \cup Rows({FamF, NameToString}, {IdA}, {<<Null, Null>>})
    \cup Rows({FamF}, {NameToString}, {<<Null, Null>>})

KeyPeds == UNION {[1..n -> KeyRows] : n \in 0..MaxKeyRows}

\* Identifiers that are integers, among them the falsy 0, and the empty
\* string.  An integer that is truthy is a sample only, so that every key
\* that `for (const who in child)` yields is the identifier itself.
IdZero == Num("0")
IdOne == Num("1")
IdEmpty == Str("")

TypedRows ==
  Rows({FamF}, {IdA, IdZero, IdOne, IdEmpty},
       {<<Null, Null>>, <<IdZero, Null>>, <<Null, IdEmpty>>, <<IdZero, IdZero>>, <<IdA, Null>>})
    \cup Rows({FamG}, {IdA, IdOne}, {<<Null, Null>>})

TypedPeds == Peds(TypedRows)

\* Every encoding of the sex that the switch of lines 193-217 names, and one
\* that it does not name.  The individual a has a record with any of them;
\* b names a as its father or as its mother.
RawSexes ==
  {Num("0"), Num("-1"), Str("0"), Null, Undefined,
   Num("1"), Str("1"), Str("Male"),
   Num("2"), Str("2"), Str("Female"),
   Str("M")}

SexRows ==
  {[family |-> FamF, sample |-> IdA, father |-> Null, mother |-> Null, sex |-> sex] :
     sex \in RawSexes}
    \cup Rows({FamF}, {IdB}, {<<IdA, Null>>, <<Null, IdA>>})

SexPeds == Peds(SexRows)

\* The caller writes a sex in the next encoding of the same case group.
Reencode(sex) ==
  CASE sex = Num("0") -> Num("-1")
    [] sex = Num("-1") -> Str("0")
    [] sex = Str("0") -> Null
    [] sex = Null -> Undefined
    [] sex = Undefined -> Num("0")
    [] sex = Num("1") -> Str("1")
    [] sex = Str("1") -> Str("Male")
    [] sex = Str("Male") -> Num("1")
    [] sex = Num("2") -> Str("2")
    [] sex = Str("2") -> Str("Female")
    [] sex = Str("Female") -> Num("2")
    [] OTHER -> sex

\* The lists that differ from rows in the encoding of the sex of some records.
Reencodings(rows) ==
  {[i \in DOMAIN rows |-> IF i \in S THEN [rows[i] EXCEPT !.sex = Reencode(@)] ELSE rows[i]] :
     S \in SUBSET DOMAIN rows}

\* Records of one family, of a and b with any parents among a and b, for the
\* calls that differ in the order of the records.
OrderPeds == Peds(Rows({FamF}, {IdA, IdB}, {Null, IdA, IdB} \X {Null, IdA, IdB}))

\* The lists that hold the records of rows in another order.
Permuted(rows) ==
  {[i \in DOMAIN rows |-> rows[f[i]]] : f \in Permutations(DOMAIN rows)}

(***************************************************************************)
(* validatePedigree                                                        *)
(*                                                                         *)
(* result is the verdict under construction and calls the invocations of   *)
(* addProblem made so far, each with its arguments.  args holds the two    *)
(* arguments as the caller passed them, and earlier the calls that have    *)
(* returned before this one.                                               *)
(***************************************************************************)
\* Line 129: the parameter options takes the value strict when the argument
\* is absent.  given is the list of the arguments after ped: empty, or one
\* policy.
\* Faulty variant of DefaultOptions: the default is the permissive preset.
DefaultOptionsPermissive(given) == IF given = <<>> THEN permissive ELSE given[1]

DefaultOptions(given) == IF given = <<>> THEN strict ELSE given[1]

Given(policies) == {<<o>> : o \in policies}

InitCall(peds, givens) ==
  /\ ped \in peds
  /\ \E given \in givens :
       /\ args = [ped |-> ped, options |-> given]
       /\ options = DefaultOptions(given)
  /\ earlier = <<>>
  /\ result = NewResult
  /\ calls = <<>>
  /\ pc = "start"
  /\ fams = EmptyObject
  /\ famids = <<>>
  /\ dads = <<>>
  /\ mums = <<>>
  /\ famPos = 0

InitWith(peds, policies) == InitCall(peds, Given(policies))

Init == InitWith(GeneralPeds, FewPolicies)
InitPolicy == InitWith(PolicyPeds, OneOffPolicies)
InitGraph == InitWith(GraphPeds, GraphPolicies)
InitCalls == InitCall(CallPeds, CallGivens)
InitKeys == InitWith(KeyPeds, {strict, Uniform("warning")})
InitSex == InitWith(SexPeds, {strict, Uniform("warning")})
InitTyped == InitWith(TypedPeds, {strict, Uniform("warning")})
InitOrder == InitWith(OrderPeds, {strict, permissive})

\* addProblem(options, result, which, reason, whoAndWhy), when found holds.
Report(found, which, reason, whoAndWhy) ==
  IF found
    THEN /\ result' = addProblem(options, result, which, reason, whoAndWhy)
         /\ calls' = Append(calls, [which |-> which, reason |-> reason, whoAndWhy |-> whoAndWhy])
    ELSE UNCHANGED <<result, calls>>

\* Faulty variant of CheckEmpty: an empty list returns without a report.
CheckEmptySilent ==
  /\ pc = "start"
  /\ pc' = IF Len(ped) = 0 THEN "done" ELSE "families"
  /\ UNCHANGED <<ped, options, result, calls, fams, famids, dads, mums, famPos, args, earlier>>

\* Lines 130-137.
CheckEmpty ==
  /\ pc = "start"
  /\ Report(Len(ped) = 0, "empty", ReasonEmpty, <<>>)
  /\ pc' = IF Len(ped) = 0 THEN "done" ELSE "families"
  /\ UNCHANGED <<ped, options, fams, famids, dads, mums, famPos, args, earlier>>

\* Faulty variant of CheckMultipleFamilies: >= for >, so that one family is
\* reported as several.
CheckMultipleFamiliesAlways ==
  /\ pc = "families"
  /\ LET g == GroupFamilies(ped)
     IN /\ fams' = g.fams
        /\ famids' = g.famids
        /\ pc' = IF g.threw THEN "threw" ELSE "oneFamily"
        /\ Report(~g.threw /\ Len(g.famids) >= 1, "multipleFamilies",
                  ReasonMultipleFamilies, <<>>)
  /\ UNCHANGED <<ped, options, dads, mums, famPos, args, earlier>>

\* Lines 142-154.
CheckMultipleFamilies ==
  /\ pc = "families"
  /\ LET g == GroupFamilies(ped)
     IN /\ fams' = g.fams
        /\ famids' = g.famids
        /\ pc' = IF g.threw THEN "threw" ELSE "oneFamily"
        /\ Report(~g.threw /\ Len(g.famids) > 1, "multipleFamilies",
                  ReasonMultipleFamilies, <<>>)
  /\ UNCHANGED <<ped, options, dads, mums, famPos, args, earlier>>

\* Lines 156-188.
CheckOneFamily ==
  /\ pc = "oneFamily"
  /\ LET fi == FamilyIndex(famids, fams)
         familyProblems == IF fi.threw THEN <<>> ELSE FamilyProblems(fi)
     IN /\ pc' = IF fi.threw THEN "threw" ELSE "normalise"
        /\ Report(Len(familyProblems) > 0, "oneFamily", ReasonOneFamily, familyProblems)
  /\ UNCHANGED <<ped, options, fams, famids, dads, mums, famPos, args, earlier>>

\* Lines 192-218.  The rows of fams are the rows of ped, the same objects.
Normalise ==
  /\ pc = "normalise"
  /\ ped' = NormaliseRows(ped)
  /\ fams' = [k \in DOMAIN fams |-> NormaliseRows(fams[k])]
  /\ pc' = "duplicates"
  /\ UNCHANGED <<options, result, calls, famids, dads, mums, famPos, args, earlier>>

\* Lines 225-250.
CheckDuplicates ==
  /\ pc = "duplicates"
  /\ LET sc == Scan(ped)
     IN /\ dads' = sc.dads
        /\ mums' = sc.mums
        /\ Report(Len(sc.duplicates) > 0, "duplicates", ReasonDuplicateRows,
                  zip(sc.duplicates, WhyDuplicateRows))
  /\ pc' = "both"
  /\ UNCHANGED <<ped, options, fams, famids, famPos, args, earlier>>

\* Lines 251-260.
CheckBoth ==
  /\ pc = "both"
  /\ LET both == Both(dads, mums)
     IN Report(Len(both) > 0, "duplicates", ReasonBoth, zip(both, WhyBoth))
  /\ pc' = "sexMums"
  /\ UNCHANGED <<ped, options, fams, famids, dads, mums, famPos, args, earlier>>

\* Lines 264-283.
CheckSexMums ==
  /\ pc = "sexMums"
  /\ LET inconsistentSexMums == InconsistentSexMums(ped, mums)
     IN Report(Len(inconsistentSexMums) > 0, "inconsistentSex", ReasonSexMums,
               zip(inconsistentSexMums, WhySexMums))
  /\ pc' = "sexDads"
  /\ UNCHANGED <<ped, options, fams, famids, dads, mums, famPos, args, earlier>>

\* Lines 264-292, and the entry of the loop of line 296.
CheckSexDads ==
  /\ pc = "sexDads"
  /\ LET inconsistentSexDads == InconsistentSexDads(ped, dads)
     IN Report(Len(inconsistentSexDads) > 0, "inconsistentSex", ReasonSexDads,
               zip(inconsistentSexDads, WhySexDads))
  /\ pc' = "connected"
  /\ famPos' = 1
  /\ UNCHANGED <<ped, options, fams, famids, dads, mums, args, earlier>>

\* The rows of the family the loop of line 296 is at.
FamilyRows == fams[FamilyKeys(famids)[famPos]]

\* Lines 299-393.
CheckFullyConnected ==
  /\ pc = "connected"
  /\ \E find \in FindChoices(SeqToSet(Everyone(FamilyIndexes(FamilyRows))),
                             UnionPairs(FamilyRows)) :
       LET u == Unconnected(FamilyRows, find)
       IN Report(u.report, "fullyConnected", ReasonFullyConnected,
                 zip(u.who, WhyFullyConnected))
  /\ pc' = "cycles"
  /\ UNCHANGED <<ped, options, fams, famids, dads, mums, famPos, args, earlier>>

\* Lines 398-425, and the return of line 427 after the last family.
CheckCycles ==
  /\ pc = "cycles"
  /\ LET cyclic == Cyclic(FamilyRows)
     IN Report(Len(cyclic) > 0, "cycles", ReasonCycles, zip(cyclic, WhyCycles))
  /\ IF famPos < Len(FamilyKeys(famids))
       THEN pc' = "connected" /\ famPos' = famPos + 1
       ELSE pc' = "done" /\ famPos' = famPos
  /\ UNCHANGED <<ped, options, fams, famids, dads, mums, args, earlier>>

\* The caller calls validatePedigree once more: with the list of the call
\* that has returned, as that call left it, and the same policy argument, or
\* with one of the inputs of others.  Every name of lines 130-428 is local to
\* the call and starts afresh.
Recall(others, keep) ==
  /\ pc = "done"
  /\ Len(earlier) + 1 < MaxCalls
  /\ earlier' = Append(earlier, [args |-> args, returned |-> ped, result |-> result])
  /\ \E next \in {[ped |-> ped, options |-> args.options]} \cup others :
       /\ args' = next
       /\ ped' = next.ped
       /\ options' = DefaultOptions(next.options)
  /\ result' = IF keep THEN result ELSE NewResult
  /\ calls' = <<>>
  /\ pc' = "start"
  /\ fams' = EmptyObject
  /\ famids' = <<>>
  /\ dads' = <<>>
  /\ mums' = <<>>
  /\ famPos' = 0

\* Faulty variant of CallAgain: result is a name of the module, which the
\* calls share.
CallAgainSharedResult == Recall(OtherCalls, TRUE)

CallAgain == Recall(OtherCalls, FALSE)

Next ==
  \/ CheckEmpty
  \/ CheckMultipleFamilies
  \/ CheckOneFamily
  \/ Normalise
  \/ CheckDuplicates
  \/ CheckBoth
  \/ CheckSexMums
  \/ CheckSexDads
  \/ CheckFullyConnected
  \/ CheckCycles

\* The caller calls once more, with the records it passed to the first call
\* written in other encodings of the sex.
CallReencoded ==
  /\ earlier = <<>>
  /\ Recall({[ped |-> rows, options |-> args.options] : rows \in Reencodings(args.ped)}, FALSE)

\* The caller calls once more, with the records it passed to the first call
\* in another order.
CallPermuted ==
  /\ earlier = <<>>
  /\ Recall({[ped |-> rows, options |-> args.options] : rows \in Permuted(args.ped)}, FALSE)

NextCalls == Next \/ CallAgain
NextOrder == Next \/ CallPermuted
NextSex == Next \/ CallReencoded

Spec == Init /\ [][Next]_vars
SpecPolicy == InitPolicy /\ [][Next]_vars
SpecGraph == InitGraph /\ [][Next]_vars
SpecCalls == InitCalls /\ [][NextCalls]_vars
SpecKeys == InitKeys /\ [][Next]_vars
SpecTyped == InitTyped /\ [][Next]_vars
SpecSex == InitSex /\ [][NextSex]_vars
SpecOrder == InitOrder /\ [][NextOrder]_vars

(***************************************************************************)
(* Vocabulary of the properties                                            *)
(***************************************************************************)
Returned == pc = "done"

Occurrences(seq, x) == Cardinality({i \in DOMAIN seq : seq[i] = x})

\* The keys of whys whose list holds the explanation why.
Explained(why) == {k \in DOMAIN result.whys : why \in SeqToSet(result.whys[k])}

ReasonsOf(cat) ==
  CASE cat = "empty" -> {ReasonEmpty}
    [] cat = "multipleFamilies" -> {ReasonMultipleFamilies}
    [] cat = "oneFamily" -> {ReasonOneFamily}
    [] cat = "duplicates" -> {ReasonDuplicateRows, ReasonBoth}
    [] cat = "inconsistentSex" -> {ReasonSexMums, ReasonSexDads}
    [] cat = "fullyConnected" -> {ReasonFullyConnected}
    [] cat = "cycles" -> {ReasonCycles}

WhysOf(cat) ==
  CASE cat = "empty" -> {}
    [] cat = "multipleFamilies" -> {}
    [] cat = "oneFamily" -> {WhyOneFamily}
    [] cat = "duplicates" -> {WhyDuplicateRows, WhyBoth}
    [] cat = "inconsistentSex" -> {WhySexMums, WhySexDads}
    [] cat = "fullyConnected" -> {WhyFullyConnected}
    [] cat = "cycles" -> {WhyCycles}

\* The individuals of one invocation of addProblem.
CallWhos(call) == {call.whoAndWhy[i][1] : i \in DOMAIN call.whoAndWhy}

C2_OkFalseIffErrorReported ==
  Returned =>
    /\ result.ok = ~(\E i \in DOMAIN calls : options[calls[i].which] = "error")
    /\ \A i \in DOMAIN calls :
         options[calls[i].which] = "warning" =>
           /\ calls[i].reason \in SeqToSet(result.reasons)
           /\ \A j \in DOMAIN calls[i].whoAndWhy :
                /\ calls[i].whoAndWhy[j][1] \in result.problematic
                /\ ToKey(calls[i].whoAndWhy[j][1]) \in Explained(calls[i].whoAndWhy[j][2])

\* Only warnings were reported, with individuals, and ok is still true.
C2_Witness ==
  /\ Returned
  /\ result.ok
  /\ result.problematic # {}
  /\ \E i \in DOMAIN calls : options[calls[i].which] = "warning"
  /\ \E cat \in Categories : options[cat] = "error"

(***************************************************************************)
(* C3: a category set to ignore leaves no trace in the verdict returned:   *)
(* none of its reasons is in reasons, none of its explanations is in whys, *)
(* and every problematic individual has an explanation of another          *)
(* category.                                                               *)
(***************************************************************************)
C3_IgnoredCategoryLeavesNoTrace ==
  Returned =>
    \A cat \in Categories :
      options[cat] = "ignore" =>
        /\ SeqToSet(result.reasons) \cap ReasonsOf(cat) = {}
        /\ \A why \in WhysOf(cat) : Explained(why) = {}
        /\ \A who \in result.problematic :
             \E k \in DOMAIN result.whys :
               /\ k = ToKey(who)
               /\ SeqToSet(result.whys[k]) \ WhysOf(cat) # {}

\* The data violates an ignored category, with individuals, while another
\* category is recorded.
C3_Witness ==
  /\ Returned
  /\ result.problematic # {}
  /\ \E i \in DOMAIN calls :
       /\ options[calls[i].which] = "ignore"
       /\ calls[i].whoAndWhy # <<>>

(***************************************************************************)
(* C4: for an empty list of records only the check of the category empty   *)
(* runs, and the verdict returned is fixed by that category's severity.    *)
(***************************************************************************)
C4_EmptyPedigree ==
  (Returned /\ ped = <<>>) =>
    /\ calls = <<[which |-> "empty", reason |-> ReasonEmpty, whoAndWhy |-> <<>>]>>
    /\ result =
         [ok |-> options.empty # "error",
          reasons |-> IF options.empty = "ignore" THEN <<>> ELSE <<ReasonEmpty>>,
          problematic |-> {},
          whys |-> EmptyObject]

\* An empty list under empty = error, the other categories being warnings.
C4_Witness ==
  /\ Returned
  /\ ped = <<>>
  /\ options.empty = "error"
  /\ options.cycles = "warning"
  /\ ~result.ok

(***************************************************************************)
(* The kinship of one family, as the properties speak of it                *)
(***************************************************************************)
\* Every identifier the rows name as sample, father or mother.
Nodes(rows) ==
  {rows[i].sample : i \in DOMAIN rows}
    \cup {rows[i].father : i \in {j \in DOMAIN rows : rows[j].father # Null}}
    \cup {rows[i].mother : i \in {j \in DOMAIN rows : rows[j].mother # Null}}

\* The edges from a recorded parent to its child.
ParentEdges(rows) ==
  {<<rows[i].father, rows[i].sample>> : i \in {j \in DOMAIN rows : rows[j].father # Null}}
    \cup {<<rows[i].mother, rows[i].sample>> : i \in {j \in DOMAIN rows : rows[j].mother # Null}}

\* The connected pieces under the links between a sample and its parents.
Components(rows) == {Grow({n}, ParentEdges(rows)) : n \in Nodes(rows)}

Largest(cs) == {x \in cs : \A y \in cs : Cardinality(y) <= Cardinality(x)}

\* The individuals that reach themselves along one parent-to-child edge or more.
SelfAncestors(rows) == {v \in Nodes(rows) : v \in Descendants(v, ParentEdges(rows))}

SelfParents(rows) ==
  {rows[i].sample : i \in {j \in DOMAIN rows :
                             rows[j].father = rows[j].sample \/ rows[j].mother = rows[j].sample}}

\* The invocations of addProblem for one category, in order.
CallsOf(cat) == SelectSeq(calls, LAMBDA call : call.which = cat)

\* The families, in the order of the loop over them, that are in several pieces.
SplitFamilies ==
  SelectSeq(FamilyKeys(famids), LAMBDA k : Cardinality(Components(fams[k])) > 1)

(***************************************************************************)
(* C5: an individual recorded as its own father or mother is explained by  *)
(* "Sample is an ancestor of itself." in the verdict returned, and ok is   *)
(* false when cycles is error.                                             *)
(***************************************************************************)
C5_SelfParentIsCyclic ==
  (Returned /\ options.cycles # "ignore") =>
    \A who \in SelfParents(ped) :
      /\ ToKey(who) \in Explained(WhyCycles)
      /\ options.cycles = "error" => ~result.ok

(***************************************************************************)
(* C6: the individuals reported under cycles are exactly those that reach  *)
(* themselves along parent-to-child edges of their family, and a family    *)
(* without such an individual has no cycles finding.                       *)
(***************************************************************************)
C6_CyclicAreTheSelfAncestors ==
  Returned =>
    /\ UNION {CallWhos(CallsOf("cycles")[i]) : i \in DOMAIN CallsOf("cycles")}
         = UNION {SelfAncestors(fams[k]) : k \in DOMAIN fams}
    /\ Len(CallsOf("cycles"))
         = Cardinality({k \in DOMAIN fams : SelfAncestors(fams[k]) # {}})

(***************************************************************************)
(* C7: each family in more than one piece has one fullyConnected finding,  *)
(* whose individuals are exactly the nodes outside one piece of greatest   *)
(* size, each once and with the explanation "Individual is not properly    *)
(* connected to pedigree."; a family in one piece has none.                *)
(***************************************************************************)
C7_UnconnectedAreOutsideALargestPiece ==
  Returned =>
    LET fc == CallsOf("fullyConnected")
    IN /\ Len(fc) = Len(SplitFamilies)
       /\ \A j \in DOMAIN fc :
            /\ \E main \in Largest(Components(fams[SplitFamilies[j]])) :
                 CallWhos(fc[j]) = Nodes(fams[SplitFamilies[j]]) \ main
            /\ Len(fc[j].whoAndWhy) = Cardinality(CallWhos(fc[j]))
            /\ \A m \in DOMAIN fc[j].whoAndWhy : fc[j].whoAndWhy[m][2] = WhyFullyConnected
       /\ options.fullyConnected # "ignore" =>
            /\ Explained(WhyFullyConnected)
                 = {ToKey(who) : who \in UNION {CallWhos(fc[j]) : j \in DOMAIN fc}}
            /\ UNION {CallWhos(fc[j]) : j \in DOMAIN fc} \subseteq result.problematic

\* A family of a pair and a single individual: the pair holds an implied
\* parent, and the single individual is reported.
C7_Witness ==
  /\ Returned
  /\ options.fullyConnected # "ignore"
  /\ \E k \in DOMAIN fams :
       /\ Cardinality(Components(fams[k])) = 2
       /\ \E x \in Components(fams[k]) :
            /\ Cardinality(x) = 2
            /\ x \ {fams[k][i].sample : i \in DOMAIN fams[k]} # {}
       /\ \E who \in Nodes(fams[k]) : ToKey(who) \in Explained(WhyFullyConnected)

(***************************************************************************)
(* C8: the piece that is kept is the piece of greatest size that is met    *)
(* first when the samples are taken in the order of the rows, then the     *)
(* fathers, then the mothers; two rows of one family without parents give, *)
(* under strict, ok false, the connectivity reason alone and the second    *)
(* row's sample as the only problematic individual.                        *)
(***************************************************************************)
Enumeration(rows) ==
  LET named(field) ==
        [i \in DOMAIN rows |-> rows[i][field]]
      given(field) == SelectSeq(named(field), LAMBDA v : v # Null)
  IN SetAddAll(SetAddAll(SetAddAll(<<>>, named("sample")), given("father")), given("mother"))

FirstMet(piece, order) == CHOOSE i \in DOMAIN order : order[i] \in piece /\ \A j \in 1..(i - 1) : order[j] \notin piece

MainPiece(rows) ==
  CHOOSE x \in Largest(Components(rows)) :
    \A y \in Largest(Components(rows)) :
      FirstMet(x, Enumeration(rows)) <= FirstMet(y, Enumeration(rows))

C8_TiesKeepTheFirstPiece ==
  Returned =>
    /\ \A j \in DOMAIN CallsOf("fullyConnected") :
         CallWhos(CallsOf("fullyConnected")[j])
           = Nodes(fams[SplitFamilies[j]]) \ MainPiece(fams[SplitFamilies[j]])
    /\ ( /\ Len(ped) = 2
         /\ ped[1].family = ped[2].family
         /\ ped[1].sample # ped[2].sample
         /\ \A i \in DOMAIN ped : ped[i].father = Null /\ ped[i].mother = Null
         /\ options = strict )
       => result = [ok |-> FALSE,
                    reasons |-> <<ReasonFullyConnected>>,
                    problematic |-> {ped[2].sample},
                    whys |-> PutKey(EmptyObject, ToKey(ped[2].sample), <<WhyFullyConnected>>)]

\* Two pieces of the same greatest size: the piece of the first row is kept.
C8_Witness ==
  /\ Returned
  /\ options = strict
  /\ \E k \in DOMAIN fams :
       /\ Cardinality(Largest(Components(fams[k]))) = 2
       /\ fams[k][1].sample \notin result.problematic
       /\ \E who \in Nodes(fams[k]) : ToKey(who) \in Explained(WhyFullyConnected)

(***************************************************************************)
(* C9: the individuals reported as used in both roles are exactly the      *)
(* identifiers that some row lists as father and some row lists as mother, *)
(* over all rows and families, each reported once.                         *)
(***************************************************************************)
Fathers(rows) == {rows[i].father : i \in {j \in DOMAIN rows : rows[j].father # Null}}
Mothers(rows) == {rows[i].mother : i \in {j \in DOMAIN rows : rows[j].mother # Null}}

BothCalls == SelectSeq(calls, LAMBDA call : call.reason = ReasonBoth)

C9_BothRolesOverAllRows ==
  Returned =>
    /\ UNION {CallWhos(BothCalls[i]) : i \in DOMAIN BothCalls} = Fathers(ped) \cap Mothers(ped)
    /\ Len(BothCalls) <= 1
    /\ \A i \in DOMAIN BothCalls :
         /\ BothCalls[i].which = "duplicates"
         /\ Len(BothCalls[i].whoAndWhy) = Cardinality(CallWhos(BothCalls[i]))
         /\ \A m \in DOMAIN BothCalls[i].whoAndWhy : BothCalls[i].whoAndWhy[m][2] = WhyBoth

(***************************************************************************)
(* C10: unless duplicates is ignore, a sample that is the sample of more   *)
(* than one row, in one family or in several, is problematic and has       *)
(* "Person is defined in more than one line of the pedigree." exactly once *)
(* in its list of whys; a sample of exactly one row does not have it.      *)
(***************************************************************************)
RowsOfSample(who) == {i \in DOMAIN ped : ped[i].sample = who}

C10_RepeatedSampleReportedOnce ==
  (Returned /\ options.duplicates # "ignore") =>
    \A i \in DOMAIN ped :
      IF Cardinality(RowsOfSample(ped[i].sample)) > 1
        THEN /\ ped[i].sample \in result.problematic
             /\ ToKey(ped[i].sample) \in Explained(WhyDuplicateRows)
             /\ Occurrences(result.whys[ToKey(ped[i].sample)], WhyDuplicateRows) = 1
        ELSE ToKey(ped[i].sample) \notin Explained(WhyDuplicateRows)

\* One sample in two rows of different families, another in one row only.
C10_Witness ==
  /\ Returned
  /\ options.duplicates # "ignore"
  /\ \E i, j \in DOMAIN ped :
       /\ i # j
       /\ ped[i].sample = ped[j].sample
       /\ ped[i].family # ped[j].family
       /\ ToKey(ped[i].sample) \in Explained(WhyDuplicateRows)
       /\ (ped[i].father # Null /\ ToKey(ped[i].father) \notin Explained(WhyDuplicateRows))

(***************************************************************************)
(* C11: unless inconsistentSex is ignore, every individual with a record   *)
(* of its own that some record lists as a mother and whose canonical sex   *)
(* is not Female is explained by "Person is not female, but occurs as a    *)
(* mother.", and every recorded father whose canonical sex is not Male by  *)
(* "Person is not male, but occurs as a father."; each batch pushes its    *)
(* own reason, only when it is not empty, the mothers' reason first.       *)
(***************************************************************************)
\* The encodings of the two sexes, raw or canonical; the sex of a record is
\* read as the caller passed it.
IsFemale(sex) == sex \in {Num("2"), Str("2"), Str("Female")}
IsMale(sex) == sex \in {Num("1"), Str("1"), Str("Male")}

WrongSexMothers ==
  {ped[i].sample : i \in {j \in DOMAIN ped :
     ped[j].sample \in Mothers(ped) /\ ~IsFemale(args.ped[j].sex)}}

WrongSexFathers ==
  {ped[i].sample : i \in {j \in DOMAIN ped :
     ped[j].sample \in Fathers(ped) /\ ~IsMale(args.ped[j].sex)}}

Positions(seq, x) == {i \in DOMAIN seq : seq[i] = x}

C11_WrongSexParentsReported ==
  (Returned /\ options.inconsistentSex # "ignore") =>
    /\ \A who \in WrongSexMothers : ToKey(who) \in Explained(WhySexMums)
    /\ \A who \in WrongSexFathers : ToKey(who) \in Explained(WhySexDads)
    /\ Occurrences(result.reasons, ReasonSexMums) = IF WrongSexMothers = {} THEN 0 ELSE 1
    /\ Occurrences(result.reasons, ReasonSexDads) = IF WrongSexFathers = {} THEN 0 ELSE 1
    /\ \A i \in Positions(result.reasons, ReasonSexMums) :
         \A j \in Positions(result.reasons, ReasonSexDads) : i < j

(***************************************************************************)
(* C12: the individuals reported under oneFamily are exactly the           *)
(* identifiers that records of more than one family id mention as sample,  *)
(* father or mother, each once and with "Individual belongs to more than   *)
(* one family."; the finding is recorded by the severity of oneFamily,     *)
(* whatever the severity of multipleFamilies.                              *)
(***************************************************************************)
Mentions(row) ==
  {row.sample} \cup ({row.father, row.mother} \ {Null})

FamiliesOf(who) == {ped[i].family : i \in {j \in DOMAIN ped : who \in Mentions(ped[j])}}

Shared == {who \in Nodes(ped) : Cardinality(FamiliesOf(who)) > 1}

Families == {ped[i].family : i \in DOMAIN ped}

C13_MultipleFamiliesIffSeveralIds ==
  Returned =>
    LET mf == CallsOf("multipleFamilies")
    IN /\ Len(mf) = IF Cardinality(Families) > 1 THEN 1 ELSE 0
       /\ \A j \in DOMAIN mf :
            /\ mf[j].reason = ReasonMultipleFamilies
            /\ mf[j].whoAndWhy = <<>>
       /\ Occurrences(result.reasons, ReasonMultipleFamilies)
            = IF options.multipleFamilies = "ignore" THEN 0 ELSE Len(mf)
       /\ (\A i \in DOMAIN calls : calls[i].which = "multipleFamilies") =>
            /\ result.problematic = {}
            /\ result.whys = EmptyObject

\* Two families without a shared individual: the finding is the only one.
C13_Witness ==
  /\ Returned
  /\ Cardinality(Families) = 2
  /\ Shared = {}
  /\ options.multipleFamilies = "warning"
  /\ result = [ok |-> TRUE, reasons |-> <<ReasonMultipleFamilies>>,
               problematic |-> {}, whys |-> EmptyObject]

(***************************************************************************)
(* C14: records of one family, without a repeated sample, without an       *)
(* identifier listed both as father and as mother, with every recorded     *)
(* parent of the sex of its role, in one connected piece and without an    *)
(* individual that is its own ancestor, give the verdict ok true with      *)
(* empty reasons, problematic and whys under every policy; so does a       *)
(* single individual without parents.                                      *)
(***************************************************************************)
NothingToReport ==
  /\ ped # <<>>
  /\ Cardinality(Families) = 1
  /\ \A i, j \in DOMAIN ped : ped[i].sample = ped[j].sample => i = j
  /\ Fathers(ped) \cap Mothers(ped) = {}
  /\ WrongSexMothers = {}
  /\ WrongSexFathers = {}
  /\ Cardinality(Components(ped)) = 1
  /\ SelfAncestors(ped) = {}

C14_NoViolationGivesCleanVerdict ==
  Returned =>
    /\ NothingToReport => (result = NewResult /\ calls = <<>>)
    /\ (Len(ped) = 1 /\ ped[1].father = Null /\ ped[1].mother = Null) => result = NewResult

\* A child and its recorded father, under the strict policy.
C14_Witness ==
  /\ Returned
  /\ NothingToReport
  /\ options = strict
  /\ \E i, j \in DOMAIN ped : ped[i].father = ped[j].sample
  /\ result = NewResult

(***************************************************************************)
(* The order of the findings                                               *)
(***************************************************************************)
RECURSIVE IsSubsequence(_, _)
IsSubsequence(s, t) ==
  IF s = <<>> THEN TRUE
  ELSE IF t = <<>> THEN FALSE
  ELSE IF Head(s) = Head(t) THEN IsSubsequence(Tail(s), Tail(t))
  ELSE IsSubsequence(s, Tail(t))

RECURSIVE Repeat(_, _)
Repeat(s, n) == IF n = 0 THEN <<>> ELSE s \o Repeat(s, n - 1)

\* From multipleFamilies to cycles, the families one after the other.
ReasonOrder ==
  <<ReasonMultipleFamilies, ReasonOneFamily, ReasonDuplicateRows, ReasonBoth,
    ReasonSexMums, ReasonSexDads>>
    \o Repeat(<<ReasonFullyConnected, ReasonCycles>>, Cardinality(Families))

WhyOrder ==
  <<WhyOneFamily, WhyDuplicateRows, WhyBoth, WhySexMums, WhySexDads>>
    \o Repeat(<<WhyFullyConnected, WhyCycles>>, Cardinality(Families))

Returns == Append(earlier, [args |-> args, returned |-> ped, result |-> result])

C16_SameInputSameVerdict ==
  Returned =>
    /\ \A i \in 2..Len(Returns) :
         ( /\ Returns[i].args.ped = Returns[i - 1].returned
           /\ Returns[i].args.options = Returns[i - 1].args.options )
         => Returns[i].result = Returns[i - 1].result
    /\ \A i, j \in DOMAIN Returns :
         Returns[i].args = Returns[j].args => Returns[i].result = Returns[j].result

\* The third call is made with the list the second call has rewritten, after
\* a first call with another input, and has something to report.
C16_Witness ==
  /\ Returned
  /\ Len(earlier) = 2
  /\ earlier[2].returned = args.ped
  /\ earlier[2].args.ped # args.ped
  /\ earlier[2].args.options = args.options
  /\ earlier[1].args.ped # earlier[2].args.ped
  /\ earlier[1].result # result
  /\ result.reasons # <<>>

(***************************************************************************)
(* C17: a call without a policy argument runs under the strict preset and  *)
(* returns what a call with strict returns for the same list; under strict *)
(* ok is true exactly when reasons is empty, the empty list included.      *)
(***************************************************************************)
C17_DefaultIsStrict ==
  /\ args.options = <<>> => options = strict
  /\ Returned =>
       /\ \A i, j \in DOMAIN Returns :
            ( /\ Returns[i].args.ped = Returns[j].args.ped
              /\ Returns[i].args.options = <<>>
              /\ Returns[j].args.options = <<strict>> )
            => Returns[i].result = Returns[j].result
       /\ options = strict => (result.ok <=> result.reasons = <<>>)

\* A call without a policy argument after a call with strict on the same
\* list, both with a finding.
C17_Witness ==
  /\ Returned
  /\ args.options = <<>>
  /\ ~result.ok
  /\ \E i \in DOMAIN earlier :
       /\ earlier[i].args.ped = args.ped
       /\ earlier[i].args.options = <<strict>>

(***************************************************************************)
(* C18: validatePedigree returns a verdict for every list of records and   *)
(* every policy; no call ends in a thrown error.                           *)
(***************************************************************************)
C18_NeverThrows == pc # "threw"

(***************************************************************************)
(* C19: the call leaves the caller's records and policy as they were:      *)
(* every record has the family, sample, mother, father and sex it was      *)
(* passed with.                                                            *)
(***************************************************************************)
C19_ArgumentsUntouched ==
  /\ ped = args.ped
  /\ options = DefaultOptions(args.options)

(***************************************************************************)
(* C20: the findings of the families (fullyConnected, cycles) are recorded *)
(* family by family, in the order in which the family ids first appear in  *)
(* the records.                                                            *)
(***************************************************************************)
FirstSeen == SetAddAll(<<>>, [i \in DOMAIN ped |-> ped[i].family])

RowsOf(famid) == SelectSeq(ped, LAMBDA row : row.family = famid)

\* What one family has to report: the individuals outside its main piece,
\* then the individuals that are their own ancestors.
FamilyFindings(famid) ==
  (IF Cardinality(Components(RowsOf(famid))) > 1
     THEN <<[which |-> "fullyConnected",
             who |-> Nodes(RowsOf(famid)) \ MainPiece(RowsOf(famid))]>>
     ELSE <<>>)
    \o (IF SelfAncestors(RowsOf(famid)) # {}
          THEN <<[which |-> "cycles", who |-> SelfAncestors(RowsOf(famid))]>>
          ELSE <<>>)

RECURSIVE FindingsOf(_)
FindingsOf(ids) ==
  IF ids = <<>> THEN <<>> ELSE FamilyFindings(Head(ids)) \o FindingsOf(Tail(ids))

PerFamilyCalls ==
  LET cs == SelectSeq(calls, LAMBDA call : call.which \in {"fullyConnected", "cycles"})
  IN [i \in DOMAIN cs |-> [which |-> cs[i].which, who |-> CallWhos(cs[i])]]

C20_FamiliesInFirstSeenOrder ==
  Returned => PerFamilyCalls = FindingsOf(FirstSeen)

(***************************************************************************)
(* C21: when two families or more each have individuals outside their main *)
(* piece and fullyConnected is not ignore, reasons holds "At least one     *)
(* individual is not properly connected to family." exactly once, and      *)
(* problematic holds the individuals outside the main piece of every such  *)
(* family.                                                                 *)
(***************************************************************************)
SplitFamilyIds == {f \in Families : Cardinality(Components(RowsOf(f))) > 1}

C21_OneConnectivityReason ==
  (Returned /\ options.fullyConnected # "ignore" /\ Cardinality(SplitFamilyIds) >= 2) =>
    /\ Occurrences(result.reasons, ReasonFullyConnected) = 1
    /\ \A f \in SplitFamilyIds :
         (Nodes(RowsOf(f)) \ MainPiece(RowsOf(f))) \subseteq result.problematic

(***************************************************************************)
(* C27: in the verdict returned no individual's list of whys holds the     *)
(* same explanation twice.                                                 *)
(***************************************************************************)
C27_NoExplanationTwice ==
  Returned =>
    \A k \in DOMAIN result.whys :
      \A why \in SeqToSet(result.whys[k]) : Occurrences(result.whys[k], why) = 1

(***************************************************************************)
(* C22: a father or mother value that is not null, the integer 0 and the   *)
(* empty string included, is a recorded parent: over records without a     *)
(* repeated sample, the individuals listed in both roles are reported as   *)
(* such, the families in more than one piece (parents counted as nodes     *)
(* linked with their children) are the families with a fullyConnected      *)
(* finding, the individuals mentioned in several families are reported     *)
(* under oneFamily, and the recorded fathers and mothers of the wrong sex  *)
(* are reported under inconsistentSex.                                     *)
(***************************************************************************)
SexCallWhos(reason) ==
  UNION {CallWhos(calls[i]) : i \in {j \in DOMAIN calls : calls[j].reason = reason}}

C22_FalsyParentsAreParents ==
  (Returned /\ \A i, j \in DOMAIN ped : ped[i].sample = ped[j].sample => i = j) =>
    /\ UNION {CallWhos(BothCalls[i]) : i \in DOMAIN BothCalls} = Fathers(ped) \cap Mothers(ped)
    /\ Len(CallsOf("fullyConnected")) = Len(SplitFamilies)
    /\ {ToKey(who) : who \in UNION {CallWhos(CallsOf("oneFamily")[i]) : i \in DOMAIN CallsOf("oneFamily")}}
         = {ToKey(who) : who \in Shared}
    /\ SexCallWhos(ReasonSexMums) = WrongSexMothers
    /\ SexCallWhos(ReasonSexDads) = WrongSexFathers

(***************************************************************************)
(* C28: every element of problematic is an identifier that the records     *)
(* hold as sample, father or mother, with the same value and type.         *)
(***************************************************************************)
C28_ProblematicAreInputIdentifiers ==
  Returned => result.problematic \subseteq Nodes(ped)

(***************************************************************************)
(* C23: the normalisation of the sex takes 0, -1, "0", null and undefined  *)
(* to Unknown, 1, "1" and "Male" to Male, 2, "2" and "Female" to Female,   *)
(* and leaves every other value as it is; and two lists of records that    *)
(* differ only in the encoding of the same canonical sex get the same      *)
(* verdict.                                                                *)
(***************************************************************************)
Canonical(sex) ==
  IF IsMale(sex) THEN Str("Male")
  ELSE IF IsFemale(sex) THEN Str("Female")
  ELSE IF sex \in {Num("0"), Num("-1"), Str("0"), Null, Undefined} THEN Null
  ELSE sex

SameButSexEncoding(rows1, rows2) ==
  /\ Len(rows1) = Len(rows2)
  /\ \A i \in DOMAIN rows1 :
       /\ [rows1[i] EXCEPT !.sex = Null] = [rows2[i] EXCEPT !.sex = Null]
       /\ Canonical(rows1[i].sex) = Canonical(rows2[i].sex)

C23_SexEncodingsAreEquivalent ==
  /\ pc \in {"duplicates", "both", "sexMums", "sexDads", "connected", "cycles", "done"} =>
       \A i \in DOMAIN ped : ped[i].sex = Canonical(args.ped[i].sex)
  /\ Returned =>
       \A i, j \in DOMAIN Returns :
         ( /\ Returns[i].args.options = Returns[j].args.options
           /\ SameButSexEncoding(Returns[i].args.ped, Returns[j].args.ped) )
         => Returns[i].result = Returns[j].result

\* The second call has a's record with another encoding of Female than the
\* first, and a is reported as a father that is not male.
C23_Witness ==
  /\ Returned
  /\ Len(earlier) = 1
  /\ SameButSexEncoding(earlier[1].args.ped, args.ped)
  /\ \E i \in DOMAIN args.ped :
       /\ IsFemale(args.ped[i].sex)
       /\ args.ped[i].sex # earlier[1].args.ped[i].sex
       /\ earlier[1].args.ped[i].sex # Str("Female")
       /\ ToKey(args.ped[i].sample) \in Explained(WhySexDads)

(***************************************************************************)
(* C24: within one call the verdict only accumulates: no step takes ok     *)
(* from false to true, every step leaves reasons and every list of whys    *)
(* with their content so far as a prefix, problematic loses no element,    *)
(* and an invocation of addProblem for a category that is ignore leaves    *)
(* the four fields as they were.                                           *)
(***************************************************************************)
IsPrefix(s, t) == Len(s) <= Len(t) /\ \A i \in DOMAIN s : s[i] = t[i]

Accumulates(before, after) ==
  /\ ~before.ok => ~after.ok
  /\ IsPrefix(before.reasons, after.reasons)
  /\ before.problematic \subseteq after.problematic
  /\ \A k \in DOMAIN before.whys :
       /\ k \in DOMAIN after.whys
       /\ IsPrefix(before.whys[k], after.whys[k])

C24_VerdictOnlyAccumulates ==
  [][ /\ Accumulates(result, result')
      /\ ( /\ Len(calls') = Len(calls) + 1
           /\ options[calls'[Len(calls')].which] = "ignore" )
         => result' = result ]_vars

\* After the error that made ok false, one finding is ignored and another,
\* with individuals, is recorded: ok stays false and reasons has grown.
C24_Witness ==
  /\ Returned
  /\ ~result.ok
  /\ \E i, j, k \in DOMAIN calls :
       /\ i < j /\ i < k
       /\ options[calls[i].which] = "error"
       /\ options[calls[j].which] = "ignore"
       /\ options[calls[k].which] # "ignore"
       /\ calls[k].whoAndWhy # <<>>
  /\ Len(result.reasons) = Len(calls) - 1

(***************************************************************************)
(* C25: an identifier that is a father or a mother of some record and the  *)
(* sample of none is never reported under inconsistentSex, in either role: *)
(* it is in no list handed over with one of the two findings, and none of  *)
(* the two explanations is filed under it.                                 *)
(***************************************************************************)
ImpliedParents == (Fathers(ped) \cup Mothers(ped)) \ {ped[i].sample : i \in DOMAIN ped}

C25_ImpliedParentsHaveNoSex ==
  Returned =>
    \A who \in ImpliedParents :
      /\ who \notin SexCallWhos(ReasonSexMums) \cup SexCallWhos(ReasonSexDads)
      /\ ToKey(who) \notin Explained(WhySexMums) \cup Explained(WhySexDads)

\* An implied father next to a recorded individual who is reported for its
\* sex.
C25_Witness ==
  /\ Returned
  /\ options.inconsistentSex # "ignore"
  /\ ImpliedParents \cap Fathers(ped) # {}
  /\ SexCallWhos(ReasonSexMums) \cup SexCallWhos(ReasonSexDads) # {}

(***************************************************************************)
(* C26: under one policy the value of ok does not depend on the order of   *)
(* the records: two calls whose lists hold the same records in different   *)
(* orders return the same ok.                                              *)
(***************************************************************************)
SameRecords(rows1, rows2) ==
  /\ Len(rows1) = Len(rows2)
  /\ \E f \in Permutations(DOMAIN rows1) :
       \A i \in DOMAIN rows1 : rows2[i] = rows1[f[i]]

C26_OkIndependentOfOrder ==
  Returned =>
    \A i, j \in DOMAIN Returns :
      ( /\ Returns[i].args.options = Returns[j].args.options
        /\ SameRecords(Returns[i].args.ped, Returns[j].args.ped) )
      => Returns[i].result.ok = Returns[j].result.ok

(***************************************************************************)
(* C29: in every verdict returned, ok false comes with a reason, and an    *)
(* individual in problematic comes with a reason.                          *)
(***************************************************************************)
C29_NoVerdictWithoutReason ==
  Returned =>
    /\ ~result.ok => result.reasons # <<>>
    /\ result.problematic # {} => result.reasons # <<>>

\* One finding only, an error with individuals.
C29_Witness ==
  /\ Returned
  /\ ~result.ok
  /\ result.problematic # {}
  /\ Len(result.reasons) = 1

====
